---- MODULE Spec2Model ----
(***************************************************************************)
(* A model of scripts/kml_to_geojson.py: the coordinate parser             *)
(* (parse_coordinates), the Placemark mapper (placemark_to_feature), the   *)
(* document walker (convert) and the command-line entry point (__main__).  *)
(*                                                                         *)
(* Texts are sequences of one-character strings, so that strip(), split()  *)
(* and float() are computed character by character.  Python's None is the  *)
(* value None below (a text) or AttrNone (an attribute value).             *)
(***************************************************************************)
EXTENDS Integers, Sequences, FiniteSets, TLC

VARIABLES pc, argv, inFile, outFile0, outFile, handle, closeCount,
          convertCalls, root, pms, idx, features, retval, stdout, exitCode,
          exc, arg, res

vars == <<pc, argv, inFile, outFile0, outFile, handle, closeCount,
          convertCalls, root, pms, idx, features, retval, stdout, exitCode,
          exc, arg, res>>

progVars == <<argv, inFile, outFile0, outFile, handle, closeCount,
              convertCalls, root, pms, idx, features, retval, stdout,
              exitCode, exc>>

\* ------------------------------------------------------------------ bounds

\* Longest coordinate text drawn in SpecParse.
MaxLen == 5

\* ------------------------------------------------------------------- texts

\* Python's None as the text of an element (el.text of <a/>).
None == <<"None">>

\* Whitespace characters of the model's alphabet (str.strip, str.split).
WS == {" ", "\n"}

Digits == {"0", "1", "2", "3", "4"}

DigitVal(c) == CASE c = "0" -> 0 [] c = "1" -> 1 [] c = "2" -> 2
                 [] c = "3" -> 3 [] c = "4" -> 4

\* Python truthiness of a text: None and '' are false.
Truthy(t) == t # None /\ t # <<>>

RECURSIVE LStrip(_)
LStrip(s) == IF s # <<>> /\ Head(s) \in WS THEN LStrip(Tail(s)) ELSE s

RECURSIVE RStrip(_)
RStrip(s) == IF s # <<>> /\ s[Len(s)] \in WS
             THEN RStrip(SubSeq(s, 1, Len(s) - 1)) ELSE s

\* str.strip()
Strip(s) == RStrip(LStrip(s))

\* str.split(sep) for a one-character separator drawn from seps: the fields
\* between separators, empty fields kept.
RECURSIVE SplitBy(_, _)
SplitBy(s, seps) ==
  IF s = <<>> THEN << <<>> >>
  ELSE LET r == SplitBy(Tail(s), seps)
       IN  IF Head(s) \in seps THEN << <<>> >> \o r
           ELSE << <<Head(s)>> \o Head(r) >> \o Tail(r)

NonEmpty(p) == p # <<>>

\* str.split() without arguments: runs of whitespace separate, no empty token.
SplitWS(s) == SelectSeq(SplitBy(s, WS), NonEmpty)

\* ------------------------------------------------------------------ floats

\* A float is [kind, neg, num, exp10]: num * 10^exp10 with num not a multiple
\* of ten, or nan, or an infinity.
NaN == [kind |-> "nan", neg |-> FALSE, num |-> 0, exp10 |-> 0]

Inf(neg) == [kind |-> "inf", neg |-> neg, num |-> 0, exp10 |-> 0]

RECURSIVE Normal(_, _, _)
Normal(neg, num, e) ==
  IF num = 0 THEN [kind |-> "fin", neg |-> neg, num |-> 0, exp10 |-> 0]
  ELSE IF num % 10 = 0 THEN Normal(neg, num \div 10, e + 1)
  ELSE [kind |-> "fin", neg |-> neg, num |-> num, exp10 |-> e]

AllDigits(s) == \A i \in 1..Len(s) : s[i] \in Digits

RECURSIVE DigitsVal(_)
DigitsVal(s) == IF s = <<>> THEN 0
                ELSE 10 * DigitsVal(SubSeq(s, 1, Len(s) - 1)) + DigitVal(s[Len(s)])

HasSign(s) == s # <<>> /\ Head(s) \in {"-", "+"}

Unsigned(s) == IF HasSign(s) THEN Tail(s) ELSE s

IsNeg(s) == s # <<>> /\ Head(s) = "-"

SpecialNames == { <<"n", "a", "n">>, <<"i", "n", "f">>,
                  <<"i", "n", "f", "i", "n", "i", "t", "y">> }

\* A decimal literal without exponent: digits, at most one point, and a digit
\* on at least one side of it.
IsDecimal(b) ==
  LET parts == SplitBy(b, {"."})
  IN  /\ Len(parts) \in {1, 2}
      /\ \A i \in 1..Len(parts) : AllDigits(parts[i])
      /\ \E i \in 1..Len(parts) : parts[i] # <<>>

\* Whether float(s) returns (TRUE) or raises ValueError (FALSE), for a field s
\* over the model's alphabet (no exponent, no underscore, lower case).
FloatOk(s) == LET b == Unsigned(s) IN b \in SpecialNames \/ IsDecimal(b)

\* float(s) where FloatOk(s).
FloatOf(s) ==
  LET b == Unsigned(s)
      parts == SplitBy(b, {"."})
      frac == IF Len(parts) = 2 THEN parts[2] ELSE <<>>
  IN  IF b = <<"n", "a", "n">> THEN NaN
      ELSE IF b \in SpecialNames THEN Inf(IsNeg(s))
      ELSE Normal(IsNeg(s), DigitsVal(parts[1] \o frac), 0 - Len(frac))

\* --------------------------------------------------------- parse_coordinates

\* One iteration of the loop over text.strip().split(): the pair the token
\* appends to coords, or nothing.
TokenCoords(part) ==
  LET parts == SelectSeq(SplitBy(part, {","}), NonEmpty)
  IN  IF Len(parts) >= 2
      THEN IF FloatOk(parts[1]) /\ FloatOk(parts[2])
           THEN << <<FloatOf(parts[1]), FloatOf(parts[2])>> >>
           ELSE <<>>
      ELSE <<>>

RECURSIVE CoordsOfTokens(_)
CoordsOfTokens(toks) ==
  IF toks = <<>> THEN <<>>
  ELSE TokenCoords(Head(toks)) \o CoordsOfTokens(Tail(toks))

parse_coordinates(text) ==
  IF ~Truthy(text) THEN <<>>
  ELSE CoordsOfTokens(SplitWS(Strip(text)))

\* ------------------------------------------------------------- elements

\* Python's None as the value of data.get('name').
AttrNone == "<None>"

\* An element of the parsed tree: its tag (local name in the KML namespace),
\* its text, its 'name' attribute and its children in document order.
El(tag, text, kids) == [tag |-> tag, text |-> text, name |-> AttrNone, kids |-> kids]

ElNamed(tag, name, kids) == [tag |-> tag, text |-> None, name |-> name, kids |-> kids]

\* The None that find() returns when nothing matches.
NoEl == [tag |-> "<None>", text |-> None, name |-> AttrNone, kids |-> <<>>]

IsEl(e) == e.tag # "<None>"

\* Element.iter(): the element, then its descendants, in document order.
RECURSIVE Iter(_)
RECURSIVE IterAll(_)
Iter(e) == <<e>> \o IterAll(e.kids)
IterAll(kids) == IF kids = <<>> THEN <<>> ELSE Iter(Head(kids)) \o IterAll(Tail(kids))

FirstOr(seq) == IF seq = <<>> THEN NoEl ELSE Head(seq)

\* e.findall(tag): the children of e with the tag.
FindAll(e, tag) == LET Match(k) == k.tag = tag IN SelectSeq(e.kids, Match)

\* e.find(tag): the first child of e with the tag.
Find(e, tag) == FirstOr(FindAll(e, tag))

\* e.findall('.//' + tag): the descendants of e with the tag (e itself is not one).
FindAllDesc(e, tag) == LET Match(k) == k.tag = tag IN SelectSeq(IterAll(e.kids), Match)

\* e.find('.//' + tag): the first descendant of e with the tag.
FindDesc(e, tag) == FirstOr(FindAllDesc(e, tag))

\* ------------------------------------------------------ placemark_to_feature

\* A dict is the sequence of its items in insertion order.
HasKey(d, k) == \E i \in 1..Len(d) : d[i].k = k

Get(d, k) == d[CHOOSE i \in 1..Len(d) : d[i].k = k].v

\* A dict whose first value for a key stays (d.setdefault(k, v)).
DictSetFirstWins(d, k, v) ==
  IF HasKey(d, k) THEN d ELSE Append(d, [k |-> k, v |-> v])

\* d[k] = v: an existing key keeps its place and takes the new value.
DictSet(d, k, v) ==
  IF HasKey(d, k)
  THEN [i \in 1..Len(d) |-> IF d[i].k = k THEN [k |-> k, v |-> v] ELSE d[i]]
  ELSE Append(d, [k |-> k, v |-> v])

\* if el is not None and el.text: props[key] = el.text.strip()
TextProperty(props, pm, tag) ==
  LET el == Find(pm, tag)
  IN  IF IsEl(el) /\ Truthy(el.text) THEN DictSet(props, tag, Strip(el.text))
      ELSE props

\* Truthiness of an attribute value: None and '' are false.
KeyTruthy(key) == key # AttrNone /\ key # ""

\* One iteration of the loop over ed.findall('Data').
DataProperty(props, data) ==
  LET key == data.name
      value_el == Find(data, "value")
  IN  IF KeyTruthy(key)
      THEN DictSet(props, key,
                   IF IsEl(value_el) /\ Truthy(value_el.text)
                   THEN Strip(value_el.text) ELSE <<>>)
      ELSE props

RECURSIVE DataProperties(_, _)
DataProperties(props, datas) ==
  IF datas = <<>> THEN props
  ELSE DataProperties(DataProperty(props, Head(datas)), Tail(datas))

ExtendedDataProperties(props, pm) ==
  LET ed == Find(pm, "ExtendedData")
  IN  IF IsEl(ed) THEN DataProperties(props, FindAll(ed, "Data")) ELSE props

\* The props dict when the geometry is looked for.
Properties(pm) ==
  ExtendedDataProperties(
    TextProperty(TextProperty(TextProperty(<<>>, pm, "name"), pm, "description"),
                 pm, "styleUrl"),
    pm)

\* The None that placemark_to_feature returns, and "no geometry from this probe".
NoFeature == [type |-> "None"]

NoGeometry == [type |-> "None"]

\* el.find('coordinates').text if el.find('coordinates') is not None else ''
ChildCoordsText(el) ==
  LET c == Find(el, "coordinates") IN IF IsEl(c) THEN c.text ELSE <<>>

PointGeometry(pm) ==
  LET point == FindDesc(pm, "Point")
      coords == parse_coordinates(ChildCoordsText(point))
  IN  IF IsEl(point) /\ coords # <<>>
      THEN [type |-> "Point", coordinates |-> coords[1]]
      ELSE NoGeometry

\* The LineString probe without the test that coords is non-empty.
LineStringGeometryUnchecked(pm) ==
  LET linestring == FindDesc(pm, "LineString")
      coords == parse_coordinates(ChildCoordsText(linestring))
  IN  IF IsEl(linestring)
      THEN [type |-> "LineString", coordinates |-> coords]
      ELSE NoGeometry

LineStringGeometry(pm) ==
  LET linestring == FindDesc(pm, "LineString")
      coords == parse_coordinates(ChildCoordsText(linestring))
  IN  IF IsEl(linestring) /\ coords # <<>>
      THEN [type |-> "LineString", coordinates |-> coords]
      ELSE NoGeometry

\* The Polygon probe taking the first coordinates anywhere below the Polygon.
PolygonGeometryAnyBoundary(pm) ==
  LET polygon == FindDesc(pm, "Polygon")
      coords_el == FindDesc(polygon, "coordinates")
      coords == parse_coordinates(IF IsEl(coords_el) THEN coords_el.text ELSE <<>>)
  IN  IF IsEl(polygon) /\ coords # <<>>
      THEN [type |-> "Polygon", coordinates |-> <<coords>>]
      ELSE NoGeometry

PolygonGeometry(pm) ==
  LET polygon == FindDesc(pm, "Polygon")
      outer == FindDesc(polygon, "outerBoundaryIs")
      coords_el == FindDesc(outer, "coordinates")
      coords == parse_coordinates(IF IsEl(coords_el) THEN coords_el.text ELSE <<>>)
  IN  IF IsEl(polygon) /\ IsEl(outer) /\ coords # <<>>
      THEN [type |-> "Polygon", coordinates |-> <<coords>>]
      ELSE NoGeometry

Feature(props, geometry) ==
  [type |-> "Feature", properties |-> props, geometry |-> geometry]

IsGeometry(g) == g.type # "None"

\* The mapper with the LineString probed before the Point.
placemark_to_feature_LineFirst(pm) ==
  LET props == Properties(pm)
  IN  IF IsGeometry(LineStringGeometry(pm))
      THEN Feature(props, LineStringGeometry(pm))
      ELSE IF IsGeometry(PointGeometry(pm)) THEN Feature(props, PointGeometry(pm))
      ELSE IF IsGeometry(PolygonGeometry(pm))
           THEN Feature(props, PolygonGeometry(pm))
      ELSE NoFeature

placemark_to_feature(pm) ==
  LET props == Properties(pm)
  IN  IF IsGeometry(PointGeometry(pm)) THEN Feature(props, PointGeometry(pm))
      ELSE IF IsGeometry(LineStringGeometry(pm))
           THEN Feature(props, LineStringGeometry(pm))
      ELSE IF IsGeometry(PolygonGeometry(pm))
           THEN Feature(props, PolygonGeometry(pm))
      ELSE NoFeature

\* ------------------------------------------------------------ SpecParse

\* The characters coordinate texts are drawn from in SpecParse.
Alphabet == {"1", ".", "-", ",", " ", "\n", "n", "a"}

RECURSIVE TextsOfLen(_)
TextsOfLen(n) ==
  IF n = 0 THEN { <<>> }
  ELSE { <<c>> \o t : c \in Alphabet, t \in TextsOfLen(n - 1) }

\* None and the texts of at most n characters.
Texts(n) == {None} \cup UNION { TextsOfLen(k) : k \in 0..n }

\* The program's own state while a single function is exercised.
Idle == /\ argv = <<>> /\ inFile = "missing" /\ outFile0 = <<>>
        /\ outFile = <<>> /\ handle = "none" /\ closeCount = 0
        /\ convertCalls = 0 /\ root = <<>> /\ pms = <<>> /\ idx = -1
        /\ features = <<>> /\ retval = -1 /\ stdout = <<>> /\ exitCode = -1
        /\ exc = "none"

InitParse == /\ pc = "parse_call" /\ arg \in Texts(MaxLen) /\ res = <<>> /\ Idle

ParseCoordinates ==
  /\ pc = "parse_call"
  /\ res' = parse_coordinates(arg)
  /\ pc' = "parse_done"
  /\ UNCHANGED <<arg, progVars>>

NextParse == ParseCoordinates

SpecParse == InitParse /\ [][NextParse]_vars

\* ------------------------------------------------------------------- C5

\* A whitespace-delimited token of t starts at i: t[i] is no whitespace and
\* the character before it, if any, is.
TokenStart(t, i) == t[i] \notin WS /\ (i = 1 \/ t[i - 1] \in WS)

\* The token of t that starts at i: the longest run without whitespace.
TokenAt(t, i) ==
  LET j == CHOOSE j \in i..Len(t) :
             /\ \A k \in i..j : t[k] \notin WS
             /\ (j = Len(t) \/ t[j + 1] \in WS)
  IN  SubSeq(t, i, j)

\* The non-empty comma-separated sub-fields of a token, in order.
RECURSIVE SubFields(_, _)
SubFields(tok, cur) ==
  IF tok = <<>> THEN (IF cur = <<>> THEN <<>> ELSE <<cur>>)
  ELSE IF Head(tok) = ","
       THEN (IF cur = <<>> THEN <<>> ELSE <<cur>>) \o SubFields(Tail(tok), <<>>)
       ELSE SubFields(Tail(tok), Append(cur, Head(tok)))

Finite(s) == FloatOk(s) /\ FloatOf(s).kind = "fin"

\* The token contributes a pair, as the claim has it.
Contributes(tok) ==
  LET f == SubFields(tok, <<>>)
  IN  Len(f) >= 2 /\ Finite(f[1]) /\ Finite(f[2])

RECURSIVE ExpectedFrom(_, _)
ExpectedFrom(t, i) ==
  IF i > Len(t) THEN <<>>
  ELSE IF TokenStart(t, i) /\ Contributes(TokenAt(t, i))
       THEN LET f == SubFields(TokenAt(t, i), <<>>)
            IN  << <<FloatOf(f[1]), FloatOf(f[2])>> >> \o ExpectedFrom(t, i + 1)
       ELSE ExpectedFrom(t, i + 1)

ExpectedCoords(t) == IF t = None THEN <<>> ELSE ExpectedFrom(t, 1)

\* C5: parse_coordinates returns, in token order, exactly one [lon, lat] pair
\* for each whitespace-delimited token with at least two non-empty sub-fields
\* whose first two parse as finite floats, and skips every other token; an
\* empty, absent or whitespace-only text yields the empty sequence.
C5_FinitePairsOnly == pc = "parse_done" => res = ExpectedCoords(arg)

\* The pairs parse_coordinates returns are the claim's pairs whenever every
\* pair returned is finite: the two differ only on non-finite fields.
AllFinite(cs) == \A i \in 1..Len(cs) : cs[i][1].kind = "fin" /\ cs[i][2].kind = "fin"

C5_AgreesWhenFinite ==
  pc = "parse_done" /\ AllFinite(res) => res = ExpectedCoords(arg)

\* -------------------------------------------------------- SpecPlacemark

\* Most Data children of an ExtendedData block, and most geometry elements of
\* a Placemark, drawn in SpecPlacemark.
MaxData == 2

MaxGeoms == 2

tA == <<" ", "A", " ">>

tB == <<"B">>

tBlank == <<" ">>

t42 == <<" ", "4", "2", "\n">>

t9 == <<"9">>

c12 == <<"1", ",", "2">>

c12_34 == <<"\n", "1", ",", "2", ",", "0", " ", "3", ",", "4", "\n">>

c34_12 == <<"3", ",", "4", " ", "x", ",", "1", " ", "1", ",", "2">>

cBad == <<"x", ",", "1">>

RECURSIVE SeqsOfLen(_, _)
SeqsOfLen(S, n) ==
  IF n = 0 THEN { <<>> }
  ELSE { <<x>> \o t : x \in S, t \in SeqsOfLen(S, n - 1) }

SeqsUpTo(S, n) == UNION { SeqsOfLen(S, k) : k \in 0..n }

\* The children of one tag a Placemark may carry: none, one without text, one
\* of blanks, one with text, and two of which only the first counts.
TextChildren(tag) ==
  { <<>>, <<El(tag, None, <<>>)>>, <<El(tag, tBlank, <<>>)>>, <<El(tag, tA, <<>>)>>,
    <<El(tag, None, <<>>), El(tag, tB, <<>>)>>,
    <<El(tag, tA, <<>>), El(tag, tB, <<>>)>> }

FewTextChildren(tag) ==
  { <<>>, <<El(tag, tBlank, <<>>)>>, <<El(tag, tA, <<>>)>> }

Value(text) == El("value", text, <<>>)

DataPool ==
  { ElNamed("Data", "pop", <<Value(t42)>>),
    ElNamed("Data", "pop", <<Value(t9)>>),
    ElNamed("Data", "pop", <<Value(None)>>),
    ElNamed("Data", "pop", <<>>),
    ElNamed("Data", "pop", <<Value(tBlank), Value(t9)>>),
    ElNamed("Data", AttrNone, <<Value(t9)>>),
    ElNamed("Data", "", <<Value(t9)>>),
    ElNamed("Data", "name", <<Value(tB)>>) }

ExtendedData(datas) == El("ExtendedData", None, datas)

\* No block, one block, or two blocks of which find() sees the first.
ExtendedDataChildren(n) ==
  { <<>> } \cup { <<ExtendedData(ds)>> : ds \in SeqsUpTo(DataPool, n) }
  \cup { <<ExtendedData(<<>>), ExtendedData(<<d>>)>> : d \in DataPool }

Coordinates(text) == El("coordinates", text, <<>>)

PointOf(text) == El("Point", None, <<Coordinates(text)>>)

LineStringOf(text) == El("LineString", None, <<Coordinates(text)>>)

PolygonOf(boundary, text) ==
  El("Polygon", None,
     <<El(boundary, None, <<El("LinearRing", None, <<Coordinates(text)>>)>>)>>)

GeomPool ==
  { PointOf(c12), PointOf(c34_12), PointOf(cBad), PointOf(None),
    El("Point", None, <<>>),
    El("Point", None, <<El("extrude", None, <<Coordinates(c12)>>)>>),
    LineStringOf(c12_34), LineStringOf(cBad), El("LineString", None, <<>>),
    PolygonOf("outerBoundaryIs", c12_34), PolygonOf("outerBoundaryIs", cBad),
    PolygonOf("innerBoundaryIs", c12_34),
    El("MultiGeometry", None, <<LineStringOf(c12), PointOf(c12_34)>>) }

Placemark(kids) == El("Placemark", None, kids)

\* Placemarks that differ in their property children, with at most m Data.
PropPlacemarks(m) ==
  { Placemark(n \o d \o s \o e \o <<PointOf(c12)>>) :
      n \in TextChildren("name"), d \in FewTextChildren("description"),
      s \in FewTextChildren("styleUrl"), e \in ExtendedDataChildren(m) }

\* Placemarks that differ in their geometry elements, at most m of them.
GeomPlacemarks(m) ==
  { Placemark(n \o g) :
      n \in FewTextChildren("name"), g \in SeqsUpTo(GeomPool, m) }

InitPlacemark ==
  /\ pc = "map_call" /\ arg \in PropPlacemarks(MaxData) \cup GeomPlacemarks(MaxGeoms)
  /\ res = NoFeature /\ Idle

MapPlacemark ==
  /\ pc = "map_call"
  /\ res' = placemark_to_feature(arg)
  /\ pc' = "map_done"
  /\ UNCHANGED <<arg, progVars>>

NextPlacemark == MapPlacemark

SpecPlacemark == InitPlacemark /\ [][NextPlacemark]_vars

\* ------------------------------------------------------------------- C1

\* The elements below e, in document order.
Below(e) == Tail(Iter(e))

Contains(e, tag) == \E i \in 1..Len(Below(e)) : Below(e)[i].tag = tag

\* The first element below e with the tag (e must contain one).
FirstBelow(e, tag) ==
  Below(e)[CHOOSE i \in 1..Len(Below(e)) :
             /\ Below(e)[i].tag = tag
             /\ \A j \in 1..(i - 1) : Below(e)[j].tag # tag]

\* The text of the first child of e with the tag, '' without such a child.
FirstChildText(e, tag) ==
  IF \E i \in 1..Len(e.kids) : e.kids[i].tag = tag
  THEN e.kids[CHOOSE i \in 1..Len(e.kids) :
                /\ e.kids[i].tag = tag
                /\ \A j \in 1..(i - 1) : e.kids[j].tag # tag].text
  ELSE <<>>

\* C1 as stated: a Placemark that contains both a Point and a LineString
\* yields a Feature whose geometry is a Point.
C1_PointWheneverBoth ==
  (pc = "map_done" /\ Contains(arg, "Point") /\ Contains(arg, "LineString"))
    => (res.type = "Feature" /\ res.geometry.type = "Point")

\* C1 amended: a Placemark that contains both a Point and a LineString, and
\* whose first Point has a coordinates child that parses to at least one
\* pair, yields a Feature whose geometry is a Point, with the first pair.
C1_PointFirstWhenItParses ==
  (/\ pc = "map_done" /\ Contains(arg, "Point") /\ Contains(arg, "LineString")
   /\ parse_coordinates(FirstChildText(FirstBelow(arg, "Point"), "coordinates")) # <<>>)
    => /\ res.type = "Feature"
       /\ res.geometry.type = "Point"
       /\ res.geometry.coordinates =
            parse_coordinates(FirstChildText(FirstBelow(arg, "Point"), "coordinates"))[1]

\* A LineString with valid coordinates precedes the Point in the document,
\* and the Feature is the Point.
C1_Witness ==
  /\ pc = "map_done" /\ res.type = "Feature" /\ res.geometry.type = "Point"
  /\ \E i, j \in 1..Len(Below(arg)) :
       /\ i < j
       /\ Below(arg)[i].tag = "LineString"
       /\ FirstChildText(Below(arg)[i], "coordinates") = c12
       /\ Below(arg)[j].tag = "Point"

\* ------------------------------------------------------------------- C6

TextTags == {"name", "description", "styleUrl"}

HasChild(e, tag) == \E i \in 1..Len(e.kids) : e.kids[i].tag = tag

\* The trimmed text of the first child with the tag, '' without text.
Trimmed(e, tag) ==
  IF FirstChildText(e, tag) = None THEN <<>> ELSE Strip(FirstChildText(e, tag))

\* C6: name, description and styleUrl are in the properties only if the first
\* child of that tag exists and its text is non-empty after trimming, with the
\* trimmed text as value; otherwise the key is omitted (never the empty
\* string).  Stated for the tags no Data element also names.
C6_TextPropertyRule ==
  (pc = "map_done" /\ res.type = "Feature")
    => \A tag \in TextTags :
         (\A i \in 1..Len(arg.kids) :
            arg.kids[i].tag = "ExtendedData"
              => \A j \in 1..Len(arg.kids[i].kids) : arg.kids[i].kids[j].name # tag)
         => /\ HasKey(res.properties, tag)
                 <=> (HasChild(arg, tag) /\ Trimmed(arg, tag) # <<>>)
            /\ HasKey(res.properties, tag)
                 => Get(res.properties, tag) = Trimmed(arg, tag)

\* The rule of the code: the text is tested before it is trimmed.
C6_UntrimmedTest ==
  (pc = "map_done" /\ res.type = "Feature")
    => \A tag \in TextTags :
         (\A i \in 1..Len(arg.kids) :
            arg.kids[i].tag = "ExtendedData"
              => \A j \in 1..Len(arg.kids[i].kids) : arg.kids[i].kids[j].name # tag)
         => /\ HasKey(res.properties, tag)
                 <=> (HasChild(arg, tag) /\ FirstChildText(arg, tag) \notin {None, <<>>})
            /\ HasKey(res.properties, tag)
                 => Get(res.properties, tag) = Trimmed(arg, tag)

\* ------------------------------------------------------------------ C10

\* The Data children of the first ExtendedData child, in document order.
FirstBlockDatas(pm) ==
  IF HasChild(pm, "ExtendedData")
  THEN LET ed == pm.kids[CHOOSE i \in 1..Len(pm.kids) :
                       /\ pm.kids[i].tag = "ExtendedData"
                       /\ \A j \in 1..(i - 1) : pm.kids[j].tag # "ExtendedData"]
           IsData(d) == d.tag = "Data"
       IN  SelectSeq(ed.kids, IsData)
  ELSE <<>>

\* The name attributes the Data children carry.
DataNames(pm) ==
  { FirstBlockDatas(pm)[i].name : i \in 1..Len(FirstBlockDatas(pm)) } \ {AttrNone}

\* The last Data child named k.
LastData(pm, k) ==
  FirstBlockDatas(pm)[CHOOSE i \in 1..Len(FirstBlockDatas(pm)) :
                        /\ FirstBlockDatas(pm)[i].name = k
                        /\ \A j \in (i + 1)..Len(FirstBlockDatas(pm)) :
                             FirstBlockDatas(pm)[j].name # k]

Keys(d) == { d[i].k : i \in 1..Len(d) }

\* C10 as stated: every key that is the name attribute of a Data child holds
\* the trimmed value text of the last such Data ('' without a value child or
\* text), also when the key is name, description or styleUrl; a Data without
\* name attribute adds no key.
C10_EveryNamedData ==
  (pc = "map_done" /\ res.type = "Feature")
    => /\ \A k \in DataNames(arg) :
            /\ HasKey(res.properties, k)
            /\ Get(res.properties, k) = Trimmed(LastData(arg, k), "value")
       /\ Keys(res.properties) \subseteq TextTags \cup DataNames(arg)

\* C10 amended: the same for every non-empty key; a Data whose name attribute
\* is absent or empty adds no key.
C10_EveryNonEmptyName ==
  (pc = "map_done" /\ res.type = "Feature")
    => /\ \A k \in DataNames(arg) \ {""} :
            /\ HasKey(res.properties, k)
            /\ Get(res.properties, k) = Trimmed(LastData(arg, k), "value")
       /\ Keys(res.properties) \subseteq TextTags \cup (DataNames(arg) \ {""})

\* Two Data children share a key with different values, the later one wins,
\* and a Data named 'name' has replaced the text of the name child.
C10_Witness ==
  /\ pc = "map_done" /\ res.type = "Feature"
  /\ Len(FirstBlockDatas(arg)) = 2
  /\ \/ /\ FirstBlockDatas(arg)[1].name = "pop"
        /\ FirstBlockDatas(arg)[2].name = "pop"
        /\ Trimmed(FirstBlockDatas(arg)[1], "value") = <<"4", "2">>
        /\ Get(res.properties, "pop") = t9
     \/ /\ FirstBlockDatas(arg)[2].name = "name"
        /\ FirstChildText(arg, "name") = tA
        /\ Get(res.properties, "name") = tB

\* ------------------------------------------------------------ the program

\* Most elements below the root of a document drawn by Parse.
MaxNodes == 2

\* The documents: a root over a forest of folders and Placemarks, each of
\* which may hold further ones.  A Placemark's own children come first.
NodeKinds == {"Folder", "PmPoint", "PmLine", "PmPoly", "PmNone"}

RootKinds == {"kml", "PmPoint"}

Node(kind, nested) ==
  CASE kind = "kml" -> El("kml", None, nested)
    [] kind = "Folder" -> El("Folder", None, nested)
    [] kind = "PmPoint" ->
         Placemark(<<El("name", tA, <<>>), PointOf(c34_12)>> \o nested)
    [] kind = "PmLine" ->
         Placemark(<<El("name", tB, <<>>), LineStringOf(c12_34)>> \o nested)
    [] kind = "PmPoly" ->
         Placemark(<<PolygonOf("outerBoundaryIs", c12_34)>> \o nested)
    [] kind = "PmNone" ->
         Placemark(<<ExtendedData(<<ElNamed("Data", "pop", <<Value(t42)>>)>>),
                     LineStringOf(cBad), PolygonOf("innerBoundaryIs", c12)>>
                   \o nested)

\* The forests of exactly n elements.
RECURSIVE Forests(_)
Forests(n) ==
  IF n = 0 THEN { <<>> }
  ELSE UNION { { <<Node(k, f1)>> \o f2 :
                   k \in NodeKinds, f1 \in Forests(j), f2 \in Forests(n - 1 - j) } :
               j \in 0..(n - 1) }

\* The documents of at most m elements below the root.
Docs(m) == { Node(r, f) : r \in RootKinds, f \in UNION { Forests(n) : n \in 0..m } }

\* sys.argv: the program's name and the positional arguments.
Argvs == { <<"kml_to_geojson.py">>, <<"kml_to_geojson.py", "in.kml">>,
           <<"kml_to_geojson.py", "in.kml", "out.geojson">> }

\* What the input path names: nothing, a directory, a file that cannot be
\* read, a file that is not well-formed XML, a well-formed document.
InputKinds == {"missing", "dir", "unreadable", "malformed", "wellformed"}

\* A file: whether it exists, whether it still holds what it held before the
\* run, the features written to it so far and whether the document is complete.
File(exists, old, items, complete) ==
  [exists |-> exists, old |-> old, items |-> items, complete |-> complete]

Init ==
  /\ pc = "main"
  /\ argv \in Argvs
  /\ inFile \in InputKinds
  /\ outFile0 \in { File(FALSE, FALSE, <<>>, FALSE), File(TRUE, TRUE, <<>>, FALSE) }
  /\ outFile = outFile0
  /\ handle = "none" /\ closeCount = 0 /\ convertCalls = 0
  /\ root = <<>> /\ pms = <<>> /\ idx = -1 /\ features = <<>>
  /\ retval = -1 /\ stdout = <<>> /\ exitCode = -1 /\ exc = "none"
  /\ arg = <<>> /\ res = <<>>

Line(kind, n, path) == [kind |-> kind, n |-> n, path |-> path]

\* os.path.exists(path) where the script calls os.path.isfile(path): a
\* directory passes.
IsFileOrDirectory(kind) == kind # "missing"

\* os.path.isfile(path)
IsFile(kind) == kind \in {"unreadable", "malformed", "wellformed"}

\* if len(sys.argv) < 3: print usage; sys.exit(2)
MainUsage ==
  /\ pc = "main" /\ Len(argv) < 3
  /\ stdout' = Append(stdout, Line("usage", 0, ""))
  /\ exitCode' = 2
  /\ pc' = "exited"
  /\ UNCHANGED <<argv, inFile, outFile0, outFile, handle, closeCount,
                 convertCalls, root, pms, idx, features, retval, exc, arg, res>>

\* if not os.path.isfile(in_file): print diagnostic; sys.exit(1)
MainNotFound ==
  /\ pc = "main" /\ ~(Len(argv) < 3) /\ ~IsFile(inFile)
  /\ stdout' = Append(stdout, Line("not found", 0, argv[2]))
  /\ exitCode' = 1
  /\ pc' = "exited"
  /\ UNCHANGED <<argv, inFile, outFile0, outFile, handle, closeCount,
                 convertCalls, root, pms, idx, features, retval, exc, arg, res>>

\* n = convert(in_file, out_file): the call.
MainConvert ==
  /\ pc = "main" /\ ~(Len(argv) < 3) /\ IsFile(inFile)
  /\ convertCalls' = convertCalls + 1
  /\ pc' = "parse"
  /\ UNCHANGED <<argv, inFile, outFile0, outFile, handle, closeCount, root,
                 pms, idx, features, retval, stdout, exitCode, exc, arg, res>>

\* root.findall('Placemark'): the children of the root only.
PlacemarksOfRootOnly(r) == FindAll(r, "Placemark")

\* The Placemarks convert iterates over.
Placemarks(r) == FindAllDesc(r, "Placemark")

\* ET.parse succeeds: the tree, the empty feature list and the list of
\* Placemarks the loop runs over.
ParseOk ==
  /\ pc = "parse" /\ inFile = "wellformed"
  /\ \E doc \in Docs(MaxNodes) : root' = doc /\ pms' = Placemarks(doc)
  /\ idx' = 0
  /\ features' = <<>>
  /\ pc' = "loop"
  /\ UNCHANGED <<argv, inFile, outFile0, outFile, handle, closeCount,
                 convertCalls, retval, stdout, exitCode, exc, arg, res>>

\* convert with the output opened before the input is parsed: the failed parse
\* leaves an empty output file.
ParseFailAfterOpen ==
  /\ pc = "parse" /\ inFile # "wellformed"
  /\ outFile' = File(TRUE, FALSE, <<>>, FALSE)
  /\ handle' = "closed"
  /\ closeCount' = closeCount + 1
  /\ exc' = (IF inFile = "malformed" THEN "ParseError" ELSE "OSError")
  /\ exitCode' = 1
  /\ pc' = "crashed"
  /\ UNCHANGED <<argv, inFile, outFile0, convertCalls, root, pms, idx,
                 features, retval, stdout, arg, res>>

\* ET.parse raises (the file cannot be read, or is not well-formed); nothing
\* catches it, neither in convert nor in the main block.
ParseFail ==
  /\ pc = "parse" /\ inFile # "wellformed"
  /\ exc' = (IF inFile = "malformed" THEN "ParseError" ELSE "OSError")
  /\ exitCode' = 1
  /\ pc' = "crashed"
  /\ UNCHANGED <<argv, inFile, outFile0, outFile, handle, closeCount,
                 convertCalls, root, pms, idx, features, retval, stdout, arg, res>>

\* if feat: (None is false, a Feature dict is true)
FeatTruthy(feat) == feat.type # "None"

\* One iteration of the loop over the Placemarks.
LoopStep ==
  /\ pc = "loop" /\ idx < Len(pms)
  /\ LET feat == placemark_to_feature(pms[idx + 1])
     IN  features' = IF FeatTruthy(feat) THEN Append(features, feat) ELSE features
  /\ idx' = idx + 1
  /\ UNCHANGED <<pc, argv, inFile, outFile0, outFile, handle, closeCount,
                 convertCalls, root, pms, retval, stdout, exitCode, exc, arg, res>>

\* open(out_path, 'w') succeeds: the file exists and is empty.
OpenOk ==
  /\ pc = "loop" /\ idx = Len(pms)
  /\ outFile' = File(TRUE, FALSE, <<>>, FALSE)
  /\ handle' = "open"
  /\ pc' = "dump"
  /\ UNCHANGED <<argv, inFile, outFile0, closeCount, convertCalls, root, pms,
                 idx, features, retval, stdout, exitCode, exc, arg, res>>

\* open(out_path, 'w') raises: no handle, the file as it was.
OpenFail ==
  /\ pc = "loop" /\ idx = Len(pms)
  /\ exc' = "OSError"
  /\ exitCode' = 1
  /\ pc' = "crashed"
  /\ UNCHANGED <<argv, inFile, outFile0, outFile, handle, closeCount,
                 convertCalls, root, pms, idx, features, retval, stdout, arg, res>>

\* json.dump writes the next feature.
DumpFeature ==
  /\ pc = "dump" /\ Len(outFile.items) < Len(features)
  /\ outFile' = [outFile EXCEPT !.items = Append(@, features[Len(@) + 1])]
  /\ UNCHANGED <<pc, argv, inFile, outFile0, handle, closeCount, convertCalls,
                 root, pms, idx, features, retval, stdout, exitCode, exc, arg, res>>

\* json.dump writes the end of the document and returns.
DumpEnd ==
  /\ pc = "dump" /\ Len(outFile.items) = Len(features)
  /\ outFile' = [outFile EXCEPT !.complete = TRUE]
  /\ pc' = "exit_with"
  /\ UNCHANGED <<argv, inFile, outFile0, handle, closeCount, convertCalls,
                 root, pms, idx, features, retval, stdout, exitCode, exc, arg, res>>

\* A write of json.dump raises, at any point of the document.
DumpFail ==
  /\ pc = "dump"
  /\ exc' = "OSError"
  /\ pc' = "exit_with"
  /\ UNCHANGED <<argv, inFile, outFile0, outFile, handle, closeCount,
                 convertCalls, root, pms, idx, features, retval, stdout,
                 exitCode, arg, res>>

\* Leaving the block as f = open(...); json.dump(...); f.close() would: the
\* close is skipped when the dump has raised.
ExitWithLeak ==
  /\ pc = "exit_with"
  /\ handle' = (IF exc = "none" THEN "closed" ELSE handle)
  /\ closeCount' = (IF exc = "none" THEN closeCount + 1 ELSE closeCount)
  /\ pc' = (IF exc = "none" THEN "return" ELSE "crashed")
  /\ exitCode' = (IF exc = "none" THEN exitCode ELSE 1)
  /\ UNCHANGED <<argv, inFile, outFile0, outFile, convertCalls, root, pms,
                 idx, features, retval, stdout, exc, arg, res>>

\* Leaving the with block: the handle is closed, then the exception of the
\* dump, if any, goes on to the caller.
ExitWith ==
  /\ pc = "exit_with"
  /\ handle' = "closed"
  /\ closeCount' = closeCount + 1
  /\ pc' = (IF exc = "none" THEN "return" ELSE "crashed")
  /\ exitCode' = (IF exc = "none" THEN exitCode ELSE 1)
  /\ UNCHANGED <<argv, inFile, outFile0, outFile, convertCalls, root, pms,
                 idx, features, retval, stdout, exc, arg, res>>

\* return len(features)
Return ==
  /\ pc = "return"
  /\ retval' = Len(features)
  /\ pc' = "print"
  /\ UNCHANGED <<argv, inFile, outFile0, outFile, handle, closeCount,
                 convertCalls, root, pms, idx, features, stdout, exitCode, exc,
                 arg, res>>

\* print(f'Converted {n} features to', out_file), and the end of the script.
PrintSummary ==
  /\ pc = "print"
  /\ stdout' = Append(stdout, Line("converted", retval, argv[3]))
  /\ exitCode' = 0
  /\ pc' = "exited"
  /\ UNCHANGED <<argv, inFile, outFile0, outFile, handle, closeCount,
                 convertCalls, root, pms, idx, features, retval, exc, arg, res>>

Next ==
  \/ MainUsage \/ MainNotFound \/ MainConvert
  \/ ParseOk \/ ParseFail
  \/ LoopStep \/ OpenOk \/ OpenFail
  \/ DumpFeature \/ DumpEnd \/ DumpFail
  \/ ExitWith \/ Return \/ PrintSummary

Spec == Init /\ [][Next]_vars

\* ------------------------------------------------------------------- C2

IsPair(c) == Len(c) = 2 /\ c[1].kind \in {"fin", "nan", "inf"}
                        /\ c[2].kind \in {"fin", "nan", "inf"}

NonEmptyGeometry(g) ==
  CASE g.type = "Point" -> IsPair(g.coordinates)
    [] g.type = "LineString" ->
         /\ Len(g.coordinates) >= 1
         /\ \A i \in 1..Len(g.coordinates) : IsPair(g.coordinates[i])
    [] g.type = "Polygon" ->
         /\ Len(g.coordinates) = 1
         /\ Len(g.coordinates[1]) >= 1
         /\ \A i \in 1..Len(g.coordinates[1]) : IsPair(g.coordinates[1][i])
    [] OTHER -> FALSE

\* C2: every Feature of the collection convert builds, and of the document it
\* writes, has non-empty coordinates: a Point one pair, a LineString at least
\* one pair, a Polygon exactly one ring of at least one pair.
C2_NonEmptyCoordinates ==
  /\ \A i \in 1..Len(features) :
       features[i].type = "Feature" /\ NonEmptyGeometry(features[i].geometry)
  /\ pc \in {"dump", "exit_with", "return", "print", "exited"}
       => \A i \in 1..Len(outFile.items) : NonEmptyGeometry(outFile.items[i].geometry)

\* A written collection holds a Point, a LineString and a Polygon, beside a
\* Placemark whose LineString parsed to nothing.
C2_Witness ==
  /\ pc = "exited" /\ exitCode = 0 /\ outFile.complete
  /\ \E i \in 1..Len(outFile.items) : outFile.items[i].geometry.type = "Polygon"
  /\ \E i \in 1..Len(outFile.items) : outFile.items[i].geometry.type = "LineString"

\* ------------------------------------------------------------------- C3

\* One of the three searches of a Placemark yields a non-empty sequence.
PointYields(pm) ==
  /\ Contains(pm, "Point")
  /\ parse_coordinates(FirstChildText(FirstBelow(pm, "Point"), "coordinates")) # <<>>

LineStringYields(pm) ==
  /\ Contains(pm, "LineString")
  /\ parse_coordinates(FirstChildText(FirstBelow(pm, "LineString"), "coordinates")) # <<>>

PolygonYields(pm) ==
  /\ Contains(pm, "Polygon")
  /\ Contains(FirstBelow(pm, "Polygon"), "outerBoundaryIs")
  /\ Contains(FirstBelow(FirstBelow(pm, "Polygon"), "outerBoundaryIs"), "coordinates")
  /\ parse_coordinates(
       FirstBelow(FirstBelow(FirstBelow(pm, "Polygon"), "outerBoundaryIs"),
                  "coordinates").text) # <<>>

Yields(pm) == PointYields(pm) \/ LineStringYields(pm) \/ PolygonYields(pm)

HasProperties(pm) == \E i \in 1..Len(pm.kids) :
                       pm.kids[i].tag \in TextTags \cup {"ExtendedData"}

\* C3: a Placemark adds a Feature exactly when one of the three searches
\* yields a non-empty sequence, whatever its properties, and the count convert
\* returns is the number of Placemarks that added one.
C3_AbsentIffNoGeometry ==
  /\ idx >= 0 =>
       Len(features) = Cardinality({ i \in 1..idx : Yields(pms[i]) })
  /\ pc = "loop" /\ idx < Len(pms) =>
       (placemark_to_feature(pms[idx + 1]) = NoFeature <=> ~Yields(pms[idx + 1]))
  /\ pc \in {"print", "exited"} /\ exitCode \in {-1, 0} /\ idx >= 0 =>
       retval = Cardinality({ i \in 1..Len(pms) : Yields(pms[i]) })

\* convert has returned a count below the number of Placemarks: one with
\* properties and no usable geometry added nothing.
C3_Witness ==
  /\ pc = "exited" /\ exitCode = 0
  /\ retval > 0 /\ retval < Len(pms)
  /\ \E i \in 1..Len(pms) : HasProperties(pms[i]) /\ ~Yields(pms[i])

\* ------------------------------------------------------------------- C4

\* The Placemark elements of a subtree, the subtree's root included, in
\* document order.
RECURSIVE Walk(_)
RECURSIVE WalkEach(_, _)
Walk(e) == (IF e.tag = "Placemark" THEN <<e>> ELSE <<>>) \o WalkEach(e.kids, 1)
WalkEach(kids, i) ==
  IF i > Len(kids) THEN <<>> ELSE Walk(kids[i]) \o WalkEach(kids, i + 1)

\* The non-absent mapper results of the first n elements of a sequence.
RECURSIVE Mapped(_, _)
Mapped(ps, n) ==
  IF n = 0 THEN <<>>
  ELSE LET f == placemark_to_feature(ps[n])
       IN  Mapped(ps, n - 1) \o (IF f = NoFeature THEN <<>> ELSE <<f>>)

LoopOver(ps) ==
  idx >= 0 =>
    /\ idx <= Len(ps)
    /\ features = Mapped(ps, idx)
    /\ pc # "loop" => idx = Len(ps)

\* C4 as stated: the features are the non-absent mapper results of every
\* Placemark element of the tree, in document order.
C4_EveryPlacemarkOfTree == LoopOver(Walk(root))

\* C4 amended: the features are the non-absent mapper results of every
\* Placemark element below the root element, in document order.
C4_EveryPlacemarkBelowRoot == LoopOver(WalkEach(root.kids, 1))

\* The loop is over a root whose only child is a Placemark that holds another
\* one: two different features, the outer Placemark's first.
C4_Witness ==
  /\ pc = "dump" /\ Len(features) = 2
  /\ Len(root.kids) = 1 /\ root.tag = "kml"
  /\ root.kids[1].tag = "Placemark"
  /\ features[1].properties = <<[k |-> "name", v |-> tB]>>
  /\ features[2].properties = <<[k |-> "name", v |-> <<"A">>]>>

\* ------------------------------------------------------------------- C7

\* C7: with fewer than two positional arguments the run prints the usage
\* message and exits with 2; otherwise, with an input path that is no file,
\* it prints a diagnostic and exits with 1; in both cases convert is not
\* called and the output is not touched; convert is called, and the summary
\* with its count printed, only when both checks pass.
C7_CommandLine ==
  /\ pc # "main" /\ Len(argv) < 3 =>
       /\ pc = "exited" /\ exitCode = 2
       /\ stdout = <<Line("usage", 0, "")>>
       /\ convertCalls = 0 /\ handle = "none" /\ outFile = outFile0
  /\ pc # "main" /\ Len(argv) >= 3 /\ inFile \in {"missing", "dir"} =>
       /\ pc = "exited" /\ exitCode = 1
       /\ stdout = <<Line("not found", 0, argv[2])>>
       /\ convertCalls = 0 /\ handle = "none" /\ outFile = outFile0
  /\ convertCalls > 0 =>
       Len(argv) >= 3 /\ inFile \notin {"missing", "dir"} /\ convertCalls = 1
  /\ (\E i \in 1..Len(stdout) : stdout[i].kind = "converted") =>
       /\ convertCalls = 1
       /\ stdout = <<Line("converted", Len(features), argv[3])>>

\* The input path names a directory and the output file exists: exit code 1.
C7_Witness ==
  /\ pc = "exited" /\ exitCode = 1 /\ inFile = "dir" /\ outFile0.exists
  /\ Len(argv) = 3

\* ------------------------------------------------------------------- C8

\* C8: the output handle, once opened, is closed exactly once on every path
\* out of the write step, a failed write included: never left open, never
\* closed twice.
C8_ClosedExactlyOnce ==
  /\ closeCount <= 1
  /\ handle = "open" => pc \in {"dump", "exit_with"} /\ closeCount = 0
  /\ pc \in {"return", "print", "exited", "crashed"} /\ handle # "none" =>
       handle = "closed" /\ closeCount = 1

\* A write failed after a feature was written, and the handle is closed.
C8_Witness ==
  /\ pc = "crashed" /\ exc = "OSError"
  /\ handle = "closed" /\ closeCount = 1
  /\ Len(outFile.items) >= 1 /\ ~outFile.complete

\* ------------------------------------------------------------------- C9

\* C9: on input that is not well-formed convert fails with the parse error
\* uncaught, and the output file is neither created nor truncated nor written.
C9_MalformedLeavesOutput ==
  inFile = "malformed" =>
    /\ outFile = outFile0 /\ handle = "none"
    /\ convertCalls > 0 /\ pc # "parse" =>
         pc = "crashed" /\ exc = "ParseError" /\ exitCode # 0

\* The parse has failed and the output file that existed holds what it held.
C9_Witness ==
  /\ inFile = "malformed" /\ pc = "crashed" /\ exc = "ParseError"
  /\ outFile0.exists /\ outFile.old

====
